---- MODULE Spec2Model ----
(***************************************************************************)
(* Model of install.py, the claude-agent bootstrap installer.              *)
(*                                                                         *)
(* The state is the part of the filesystem the installer touches (the      *)
(* directories that live next to the Target Directory, each with the files *)
(* the installer looks at), the command line, the position of main() and a *)
(* record of what the current run did.  A behaviour is a sequence of runs  *)
(* of the installer on the same Target Directory, with an optional user    *)
(* edit of config.py between two runs.                                     *)
(***************************************************************************)
EXTENDS Naturals, Sequences, FiniteSets

\* Number of consecutive runs of the installer on the same Target Directory.
MaxRuns == 2

VARIABLES
    parent,   \* target_dir.parent: directory name -> directory tree
    dir,      \* name of target_dir inside its parent (--dir)
    args,     \* parsed command line: [start, no_deps]
    pc,       \* position of main()
    trace,    \* the steps the current run has called, in call order
    res,      \* outcome of each external operation of the current run
    pre,      \* parent as it was when the last step was called
    run,      \* number of the current run
    before    \* what the previous run left behind, taken when this run starts

vars == <<parent, dir, args, pc, trace, res, pre, run, before>>

-----------------------------------------------------------------------------
(* Directory trees *)

\* Folder name that download_zip expects the archive to unpack to.
EXTRACTED == "claude-agent-main"

DEFAULT_DIR == "claude-agent"

\* Directory names that can occur next to each other in target_dir.parent.
Names == {DEFAULT_DIR, EXTRACTED, "claude-agent-dev"}

\* The Required Subdirectories below vault.
SubDirs == {"vault/Daemon Thoughts", "outbox", "memory", "snapshots"}

\* A path that does not exist.
NoDir ==
    [exists |-> FALSE, me |-> FALSE, git |-> FALSE, example |-> 0, config |-> 0,
     req |-> FALSE, daemon |-> FALSE, vault |-> "none", subs |-> {}]

EmptyDir == [NoDir EXCEPT !.exists = TRUE]

\* Trees the remote can serve (clone, pull or archive).  File contents are
\* numbers: 0 is "no such file", example 1 and 2 are two versions of the
\* template config.example.py.
RemoteTrees ==
    { [EmptyDir EXCEPT !.me = TRUE, !.example = 1, !.req = TRUE, !.daemon = TRUE],
      [EmptyDir EXCEPT !.me = TRUE, !.example = 2],
      [EmptyDir EXCEPT !.daemon = TRUE] }

\* Folder names an archive can unpack to.
ArchiveTops == {EXTRACTED, "claude-agent-dev"}

\* Content of a config.py the user has edited by hand.
UserEdited == 3

\* What the Target Directory can be before the first run.
InitTrees ==
    { NoDir,
      EmptyDir,
      [EmptyDir EXCEPT !.vault = "file", !.config = UserEdited],
      [EmptyDir EXCEPT !.me = TRUE, !.git = TRUE, !.example = 1, !.config = UserEdited,
                       !.req = TRUE, !.daemon = TRUE, !.vault = "dir", !.subs = SubDirs],
      [EmptyDir EXCEPT !.me = TRUE, !.git = TRUE, !.example = 2, !.vault = "file"],
      [EmptyDir EXCEPT !.me = TRUE, !.example = 1, !.config = 1, !.vault = "dir"] }

IsEmpty(t) == t = EmptyDir

\* The Required Subdirectories that exist in a tree.
ReqDirs(t) == (IF t.vault = "dir" THEN {"vault"} ELSE {}) \cup t.subs

\* Files of archive tree a written over directory t (ZipFile.extractall).
Merge(t, a) ==
    [exists  |-> TRUE,
     me      |-> t.me \/ a.me,
     git     |-> t.git \/ a.git,
     example |-> IF a.example # 0 THEN a.example ELSE t.example,
     config  |-> IF a.config # 0 THEN a.config ELSE t.config,
     req     |-> t.req \/ a.req,
     daemon  |-> t.daemon \/ a.daemon,
     vault   |-> IF a.vault # "none" THEN a.vault ELSE t.vault,
     subs    |-> t.subs \cup a.subs]

-----------------------------------------------------------------------------
(* The steps as functions of the filesystem *)

\* check_python: v is <<major, minor>>.
check_python(v) == ~(v[1] < 3 \/ (v[1] = 3 /\ v[2] < 10))

PythonVersions == {<<2, 7>>, <<3, 9>>, <<3, 10>>, <<3, 12>>}

\* clone_repo: git clone refuses an existing non-empty destination; net is the
\* outcome of the transfer.  Returns the new filesystem and the return value.
clone_repo(fs, target, net, repo) ==
    IF net = "ok" /\ (~fs[target].exists \/ IsEmpty(fs[target]))
    THEN [ok |-> TRUE, fs |-> [fs EXCEPT ![target] = [repo EXCEPT !.git = TRUE]]]
    ELSE [ok |-> FALSE, fs |-> fs]

\* git pull in an existing checkout: tracked files follow the remote.
git_pull(t, net, repo) ==
    IF net = "ok"
    THEN [t EXCEPT !.me = repo.me, !.example = repo.example,
                   !.req = repo.req, !.daemon = repo.daemon]
    ELSE t

\* download_zip: net is "neterr" (urlopen raised), "badzip" (ZipFile raised) or
\* "ok"; top is the folder the archive unpacks to and a its tree.  rmtree
\* tells whether shutil.rmtree(target_dir) was called.
download_zip(fs, target, net, top, a) ==
    IF net # "ok"
    THEN [ok |-> FALSE, fs |-> fs, rmtree |-> FALSE]
    ELSE LET f1 == [fs EXCEPT ![top] = Merge(fs[top], a)]
         IN  IF f1[EXTRACTED].exists
             THEN LET rm == f1[target].exists
                      f2 == IF rm THEN [f1 EXCEPT ![target] = NoDir] ELSE f1
                  IN  IF f2[EXTRACTED].exists
                      THEN [ok |-> TRUE,
                            fs |-> [f2 EXCEPT ![target] = f2[EXTRACTED],
                                              ![EXTRACTED] = IF target = EXTRACTED
                                                             THEN f2[EXTRACTED]
                                                             ELSE NoDir],
                            rmtree |-> rm]
                      \* rename of a path that no longer exists raises
                      ELSE [ok |-> FALSE, fs |-> f2, rmtree |-> rm]
             ELSE [ok |-> TRUE, fs |-> f1, rmtree |-> FALSE]

\* setup_directories: mkdir(parents=True, exist_ok=True) raises when the path
\* exists and is not a directory; vault is the first path made.
setup_raises(t) == t.vault = "file"

setup_directories(t) ==
    IF setup_raises(t) THEN t
    ELSE [t EXCEPT !.exists = TRUE, !.vault = "dir", !.subs = SubDirs]

\* create_config without the test that config.py is absent.
create_config_always(t) ==
    IF t.example # 0 THEN [t EXCEPT !.config = t.example] ELSE t

\* create_config: copy the template when config.py is absent and the
\* template exists.
create_config(t) ==
    IF t.config = 0 /\ t.example # 0 THEN [t EXCEPT !.config = t.example] ELSE t

\* install_dependencies: pip is the outcome of the package manager.
install_dependencies(t, pip) ==
    IF ~t.req THEN "no-manifest" ELSE IF pip = "ok" THEN "ok" ELSE "failed"

\* test_install: what running me.py can give.  "pass" is the marker text or
\* a zero exit status, "warn" any other exit, "raised" the timeout or any
\* other exception of subprocess.run; a missing me.py cannot pass.
TestOutcomes(t) == IF t.me THEN {"pass", "warn", "raised"} ELSE {"warn", "raised"}

\* start_daemon: the launch used on each platform, "missing" without daemon.py.
start_daemon(t, platform) ==
    IF ~t.daemon THEN "missing"
    ELSE IF platform = "win32" THEN "window" ELSE "session"

-----------------------------------------------------------------------------
(* main() *)

NoRes ==
    [python |-> "-", marker |-> "-", git |-> "-", pull |-> "-", clone |-> "-",
     dl |-> "-", top |-> "-", archive |-> NoDir, rmtree |-> "-", deps |-> "-",
     ollama |-> "-", test |-> "-", daemon |-> "-"]

Ended == {"done", "exit1", "crash"}

\* main() going on to the setup whatever download_zip returned.
AfterDownload_continue(ok) == "setup"

\* sys.exit(1) after a failed download_zip, the setup otherwise.

AfterDownload(ok) == IF ok THEN "setup" ELSE "exit1"

\* main() ignoring --no-deps.
DepsWanted_always(a) == TRUE

\* The dependency step is called unless --no-deps was given.

DepsWanted(a) == ~a.no_deps

Init ==
    /\ dir \in Names
    /\ \E t \in InitTrees : parent = [n \in Names |-> IF n = dir THEN t ELSE NoDir]
    /\ args \in [start : BOOLEAN, no_deps : BOOLEAN]
    /\ pc = "start"
    /\ trace = <<>>
    /\ res = NoRes
    /\ pre = parent
    /\ run = 1
    /\ before = [config |-> 0, dirs |-> {}, summary |-> FALSE]

Call(step) ==
    /\ trace' = Append(trace, step)
    /\ pre' = parent

CheckPython ==
    /\ pc = "start"
    /\ \E v \in PythonVersions :
         /\ res' = [res EXCEPT !.python = IF check_python(v) THEN "ok" ELSE "old"]
         /\ pc' = IF check_python(v) THEN "acquire" ELSE "exit1"
    /\ Call("check_python")
    /\ UNCHANGED <<parent, dir, args, run, before>>

Marker == parent[dir].exists /\ parent[dir].me

\* "Claude already installed, updating..."
UpdateExisting ==
    /\ pc = "acquire"
    /\ Marker
    /\ \E g \in BOOLEAN, net \in {"ok", "fail"}, repo \in RemoteTrees :
         IF g /\ parent[dir].git
         THEN /\ parent' = [parent EXCEPT ![dir] = git_pull(parent[dir], net, repo)]
              /\ res' = [res EXCEPT !.marker = "yes", !.git = "yes", !.pull = net]
              /\ trace' = trace \o <<"acquire", "pull">>
         ELSE /\ parent' = parent
              /\ res' = [res EXCEPT !.marker = "yes",
                                    !.git = IF g THEN "yes" ELSE "no"]
              /\ trace' = Append(trace, "acquire")
    /\ pre' = parent
    /\ pc' = "setup"
    /\ UNCHANGED <<dir, args, run, before>>

CloneRepo ==
    /\ pc = "acquire"
    /\ ~Marker
    /\ \E net \in {"ok", "fail"}, repo \in RemoteTrees :
         LET r == clone_repo(parent, dir, net, repo)
         IN  /\ parent' = r.fs
             /\ res' = [res EXCEPT !.marker = "no", !.git = "yes",
                                   !.clone = IF r.ok THEN "ok" ELSE "fail"]
             /\ pc' = IF r.ok THEN "setup" ELSE "zip"
    /\ trace' = trace \o <<"acquire", "clone">>
    /\ pre' = parent
    /\ UNCHANGED <<dir, args, run, before>>

\* "Git not found, using zip download..."
GitNotFound ==
    /\ pc = "acquire"
    /\ ~Marker
    /\ res' = [res EXCEPT !.marker = "no", !.git = "no"]
    /\ pc' = "zip"
    /\ Call("acquire")
    /\ UNCHANGED <<parent, dir, args, run, before>>

DownloadZip ==
    /\ pc = "zip"
    /\ \E net \in {"neterr", "badzip", "ok"}, top \in ArchiveTops, a \in RemoteTrees :
         LET r == download_zip(parent, dir, net, top, a)
         IN  /\ parent' = r.fs
             /\ res' = [res EXCEPT !.dl = IF r.ok THEN "ok" ELSE "fail",
                                   !.top = IF net = "ok" THEN top ELSE "-",
                                   !.archive = IF net = "ok" THEN a ELSE NoDir,
                                   !.rmtree = IF r.rmtree THEN "yes" ELSE "no"]
             /\ pc' = AfterDownload(r.ok)
    /\ Call("download_zip")
    /\ UNCHANGED <<dir, args, run, before>>

SetupDirectories ==
    /\ pc = "setup"
    /\ parent' = [parent EXCEPT ![dir] = setup_directories(parent[dir])]
    /\ pc' = IF setup_raises(parent[dir]) THEN "crash" ELSE "config"
    /\ Call("setup_directories")
    /\ UNCHANGED <<dir, args, res, run, before>>

CreateConfig ==
    /\ pc = "config"
    /\ parent' = [parent EXCEPT ![dir] = create_config(parent[dir])]
    /\ pc' = "deps"
    /\ Call("create_config")
    /\ UNCHANGED <<dir, args, res, run, before>>

InstallDependencies ==
    /\ pc = "deps"
    /\ DepsWanted(args)
    /\ \E pip \in {"ok", "fail"} :
         res' = [res EXCEPT !.deps = install_dependencies(parent[dir], pip)]
    /\ pc' = "ollama"
    /\ Call("install_dependencies")
    /\ UNCHANGED <<parent, dir, args, run, before>>

SkipDependencies ==
    /\ pc = "deps"
    /\ ~DepsWanted(args)
    /\ pc' = "ollama"
    /\ UNCHANGED <<parent, dir, args, trace, res, pre, run, before>>

CheckOllama ==
    /\ pc = "ollama"
    /\ \E o \in {"running", "absent"} : res' = [res EXCEPT !.ollama = o]
    /\ pc' = "test"
    /\ Call("check_ollama")
    /\ UNCHANGED <<parent, dir, args, run, before>>

TestInstall ==
    /\ pc = "test"
    /\ \E o \in TestOutcomes(parent[dir]) : res' = [res EXCEPT !.test = o]
    /\ pc' = "daemon"
    /\ Call("test_install")
    /\ UNCHANGED <<parent, dir, args, run, before>>

StartDaemon ==
    /\ pc = "daemon"
    /\ args.start
    /\ \E platform \in {"win32", "linux"} :
         res' = [res EXCEPT !.daemon = start_daemon(parent[dir], platform)]
    /\ pc' = "summary"
    /\ Call("start_daemon")
    /\ UNCHANGED <<parent, dir, args, run, before>>

SkipDaemon ==
    /\ pc = "daemon"
    /\ ~args.start
    /\ pc' = "summary"
    /\ UNCHANGED <<parent, dir, args, trace, res, pre, run, before>>

Summary ==
    /\ pc = "summary"
    /\ pc' = "done"
    /\ Call("summary")
    /\ UNCHANGED <<parent, dir, args, res, run, before>>

-----------------------------------------------------------------------------
(* Between two runs *)

\* config.py after the user has or has not edited it by hand.
user_edit(t, edit) ==
    IF edit /\ t.exists /\ t.config # 0 THEN [t EXCEPT !.config = UserEdited] ELSE t

\* The installer is run again on the same Target Directory, after the user
\* has or has not edited config.py.
RunAgain ==
    /\ pc \in Ended
    /\ run < MaxRuns
    /\ run' = run + 1
    /\ \E edit \in BOOLEAN :
         /\ parent' = [parent EXCEPT ![dir] = user_edit(parent[dir], edit)]
         /\ before' = [config |-> parent'[dir].config, dirs |-> ReqDirs(parent[dir]),
                       summary |-> pc = "done"]
         /\ pre' = parent'
    /\ args' \in [start : BOOLEAN, no_deps : BOOLEAN]
    /\ pc' = "start"
    /\ trace' = <<>>
    /\ res' = NoRes
    /\ UNCHANGED dir

Next ==
    \/ CheckPython
    \/ UpdateExisting
    \/ CloneRepo
    \/ GitNotFound
    \/ DownloadZip
    \/ SetupDirectories
    \/ CreateConfig
    \/ InstallDependencies
    \/ SkipDependencies
    \/ CheckOllama
    \/ TestInstall
    \/ StartDaemon
    \/ SkipDaemon
    \/ Summary
    \/ RunAgain

Spec == Init /\ [][Next]_vars

\* main() runs to its end: every step returns.
FairSpec == Spec /\ WF_vars(Next)

-----------------------------------------------------------------------------
(* Reading the record of a run *)

Has(step) == \E i \in DOMAIN trace : trace[i] = step

Last == IF trace = <<>> THEN "-" ELSE trace[Len(trace)]

\* Exit status of the process: 0 after the summary, 1 after sys.exit(1) and
\* after an exception nobody caught, 2 (no status yet) while main() runs.
ExitStatus == IF pc = "done" THEN 0 ELSE IF pc \in {"exit1", "crash"} THEN 1 ELSE 2

\* The steps that come after source acquisition.
LaterSteps ==
    {"setup_directories", "create_config", "install_dependencies", "check_ollama",
     "test_install", "start_daemon", "summary"}

\* Position of each step in the pipeline of the specification.
Rank(step) ==
    CASE step = "check_python" -> 1
      [] step = "acquire" -> 2
      [] step \in {"pull", "clone"} -> 3
      [] step = "download_zip" -> 4
      [] step = "setup_directories" -> 5
      [] step = "create_config" -> 6
      [] step = "install_dependencies" -> 7
      [] step = "check_ollama" -> 8
      [] step = "test_install" -> 9
      [] step = "start_daemon" -> 10
      [] step = "summary" -> 11

Spawned == res.daemon \in {"window", "session"}

-----------------------------------------------------------------------------
(* Claims *)

\* C1: when the Installation Marker is absent and the archive download fails
\* (after a failed clone, or with git unavailable), the run has exited with a
\* non-zero status and no later step has run: no Required Subdirectory was
\* created, no config was copied, and none of the dependency install, probe,
\* smoke test, daemon launch and summary was called.
C1_AcquisitionFailureAborts ==
    (res.marker = "no" /\ res.dl = "fail" /\ (res.clone = "fail" \/ res.git = "no"))
    => /\ pc = "exit1"
       /\ ExitStatus = 1
       /\ Last = "download_zip"
       /\ \A s \in LaterSteps : ~Has(s)
       /\ ReqDirs(parent[dir]) \subseteq ReqDirs(pre[dir])
       /\ parent[dir].config \in {0, pre[dir].config}

C1_Witness ==
    /\ res.marker = "no"
    /\ res.clone = "fail"
    /\ res.dl = "fail"
    /\ pc = "exit1"

\* C2 (as claimed): when the Installation Marker is absent and git is
\* unavailable, no clone is attempted, the archive download is attempted, a
\* successful download lets the run go through directory materialization to
\* the summary, and the run aborts only if the download fails.
C2_GitMissingFallsBack ==
    (res.marker = "no" /\ res.git = "no")
    => /\ ~Has("clone")
       /\ pc = "zip" \/ Has("download_zip")
       /\ (res.dl = "ok" /\ pc \in Ended)
            => (pc = "done" /\ Has("setup_directories") /\ Has("summary"))
       /\ ExitStatus = 1 => res.dl = "fail"

\* C3 (as claimed): a second run that reaches the summary, after a first run
\* that reached the summary, leaves a config.py that existed just before the
\* second run with the content it had then (edited by the user or not) and
\* leaves the set of Required Subdirectories as the first run left it.
C3_SecondRunPreserves ==
    (run > 1 /\ before.summary /\ pc = "done")
    => /\ before.config # 0 => parent[dir].config = before.config
       /\ ReqDirs(parent[dir]) = before.dirs

\* C4: create_config leaves an existing config.py unchanged whatever the
\* template is; it writes config.py only when config.py is absent and the
\* template exists, and config.py then has the template's content; with both
\* absent nothing changes.  Nothing else in the filesystem changes.
C4_CreateConfigFrame ==
    Last = "create_config"
    => LET o == pre[dir]
           n == parent[dir]
       IN  /\ o.config # 0 => n = o
           /\ (o.config = 0 /\ o.example # 0) => n = [o EXCEPT !.config = o.example]
           /\ (o.config = 0 /\ o.example = 0) => n = o
           /\ n.config # o.config => (o.config = 0 /\ o.example # 0)
           /\ \A d \in Names \ {dir} : parent[d] = pre[d]

C4_Witness ==
    /\ Last = "create_config"
    /\ pre[dir].config = UserEdited
    /\ pre[dir].example \in {1, 2}
    /\ parent[dir].config = UserEdited

\* C5 (as claimed): a run ends with a non-zero exit only when the version
\* check failed or both acquisition paths failed; every other run calls all
\* remaining steps in order, prints the summary and exits with status 0.
C5_OnlyTwoFatalExits ==
    /\ ExitStatus = 1 => (res.python = "old" \/ res.dl = "fail")
    /\ (pc \in Ended /\ res.python # "old" /\ res.dl # "fail")
         => /\ ExitStatus = 0
            /\ \A s \in LaterSteps \ {"install_dependencies", "start_daemon"} : Has(s)

\* C6 (as claimed): no exception leaves a step uncaught, so a run ends only by
\* one of the two deliberate sys.exit(1) or by reaching the summary.
C6_NoUncaughtException == pc # "crash"

\* C7 (as claimed): when the Target Directory holds the Installation Marker
\* and the .git folder, a pull is attempted, neither clone nor download is
\* attempted, the Target Directory is never removed, and the directory and
\* config steps have both run by the end of the run.
C7_UpdateInPlace ==
    (res.marker = "yes" /\ parent[dir].git)
    => /\ Has("pull")
       /\ ~Has("clone") /\ ~Has("download_zip")
       /\ parent[dir].exists
       /\ pc \in Ended => (Has("setup_directories") /\ Has("create_config"))

\* C8 (as claimed): when download_zip returns True, the Target Directory
\* exists and holds exactly the tree of the downloaded archive.
C8_DownloadSuccessInstalls ==
    (Last = "download_zip" /\ res.dl = "ok")
    => /\ parent[dir].exists
       /\ parent[dir] = res.archive

\* C9: a run is a linear, cycle-free sequence that ends: steps are called in
\* pipeline order and at most once, the download only after git was found
\* missing or the clone failed; past the dependency step it was called exactly
\* when --no-deps is not set, and past the daemon step a daemon was spawned
\* exactly when --start is set and daemon.py exists.
C9_Order ==
    /\ \A i, j \in DOMAIN trace : i < j => Rank(trace[i]) < Rank(trace[j])
    /\ Has("download_zip") => (res.git = "no" \/ res.clone = "fail")
    /\ ~(Has("pull") /\ (Has("clone") \/ Has("download_zip")))
    /\ Has("install_dependencies") => ~args.no_deps
    /\ pc \in {"ollama", "test", "daemon", "summary", "done"}
         => (Has("install_dependencies") <=> ~args.no_deps)
    /\ Spawned => (args.start /\ parent[dir].daemon)
    /\ pc \in {"summary", "done"} => (Spawned <=> (args.start /\ parent[dir].daemon))
    /\ pc = "done" => Last = "summary"

C10_FailedDownloadKeepsTarget ==
    Last = "download_zip"
    => /\ (res.dl = "fail" /\ pre[dir].exists) => parent[dir] = pre[dir]
       /\ res.rmtree = "yes" => (res.dl = "ok" /\ parent[dir].exists)
====
